---- MODULE Spec2Model ----
(***************************************************************************)
(* Contact reconciliation of NetWorkGPT: GoogleContactsAdapter's           *)
(* _process_contacts / _create_contact / _update_contact running against   *)
(* the contacts and social_links tables.  Every awaited store call is one  *)
(* step; every store call can raise.                                       *)
(***************************************************************************)
EXTENDS Integers, Sequences, FiniteSets, TLC

\* ---------------------------------------------------------------- bounds
\* longest list of Google contacts handed to one run
MaxBatch == 2

\* longest list of entries in one field of a raw Google connection
MaxEntries == 2

\* most pages one fetch of the contact list goes through
MaxPages == 2

\* most calls made to the SyncManager one after another
MaxCalls == 2

\* ------------------------------------------------------------ data model
\* a nullable column holding NULL / a Python None
None == "<None>"

\* the scalar columns the adapter copies and diffs
Attrs == {"name", "email", "phone", "company", "position", "notes"}

\* users.id values present in the users table
Accounts == {1, 2}

\* the users whose contacts are synchronised
SyncUsers == {1}

\* the run that is stepped when runs follow one another
Runs == {1}

\* the runs that are stepped when two syncs overlap
Tasks == {1, 2}

\* one element of contact_data["social_links"]
Link(platform, url) == [platform |-> platform, url |-> url]

\* the dictionary _process_contact_data returns
Normalized(gid, name, email, phone, company, position, notes, links) ==
    [google_id |-> gid, name |-> name, email |-> email, phone |-> phone,
     company |-> company, position |-> position, notes |-> notes,
     social_links |-> links]

\* a row of the contacts table
ContactRow(id, uid, gid, name, email, phone, company, position, notes) ==
    [id |-> id, user_id |-> uid, google_id |-> gid, name |-> name,
     email |-> email, phone |-> phone, company |-> company,
     position |-> position, notes |-> notes]

\* a row of the social_links table
SocialLinkRow(cid, platform, url) ==
    [contact_id |-> cid, platform |-> platform, url |-> url]

\* normalized contacts a run can receive
InputRecords ==
    { Normalized("g1", "Ann", "ann@x.com", "", "", "", "",
                 <<Link("linkedin", "https://li/ann")>>),
      Normalized("g1", "Ann", "ann@x.com", "+1-555-0100", "", "", "", <<>>),
      Normalized("g1", "", "", "", "", "", "",
                 <<Link("website", "https://li/ann")>>),
      Normalized("", "Bob", "", "", "", "", "", <<>>),
      Normalized("g2", "Cid", "", "", "Co", "Dev", "note",
                 <<Link("linkedin", "https://li/cid"),
                   Link("linkedin", "https://li/cid")>>) }

\* contents of the two tables when the first run starts
InitialStores ==
    { [contacts |-> <<>>, social_links |-> <<>>],
      [contacts |-> << ContactRow(1, 1, "g1", "Ann", "old@x.com", "", None,
                                  None, "existing") >>,
       social_links |-> << SocialLinkRow(1, "linkedin", "https://li/ann") >>],
      [contacts |-> << ContactRow(1, 2, "g1", "Zed", None, None, None, None,
                                  "other account"),
                       ContactRow(2, 1, None, "Loc", None, "+7", None, None,
                                  "mine") >>,
       social_links |-> << SocialLinkRow(2, "website", "https://li/cid") >>] }

\* "no row": the None a lookup returns, and the value of an unset local
NoContact == [id |-> 0]

VARIABLES
    contacts,       \* the contacts table, in id order (id = position)
    social_links,   \* the social_links table, in insertion order
    frame,          \* per run: the locals of _process_contacts and its callees
    trace,          \* per run: what happened to the record last handled
    replay,         \* a sync repeated with the same input: the input and the first result
    sync,           \* the locals of sync_contacts_from_google and how it ended
    sync_logs,      \* the sync_logs table, in id order (id = position)
    extract,        \* _process_contact_data: its argument and its result
    fetch,          \* the locals of GoogleContactsAPI.get_contacts and how it ended
    bot,            \* one chat of the Telegram bot: the user's row, user_data, the last reply
    manager         \* the locals of SyncManager.sync_contacts and the log rows it wrote

vars == <<contacts, social_links, frame, trace, replay, sync, sync_logs, extract, fetch, bot, manager>>

\* what lies outside the adapter's sync and _process_contact_data
beyond == <<fetch, bot, manager>>

\* what lies outside one call of _process_contacts
outside == <<replay, sync, sync_logs, extract, beyond>>

\* what lies outside one call of sync_contacts_from_google
apart == <<replay, extract, beyond>>

\* the tables and the adapter's sync
adapter == <<contacts, social_links, frame, trace, replay, sync, sync_logs>>

\* ------------------------------------------------------- pure operators
\* Python truthiness of a string-or-None value
Truthy(v) == v # "" /\ v # None

\* stats dictionary of _process_contacts
NewStats(n) == [total |-> n, added |-> 0, updated |-> 0, failed |-> 0, skipped |-> 0]

Bump(st, k) == [st EXCEPT ![k] = @ + 1]

\* the rows of the user uid that carry the google_id gid
OwnRows(rows, uid, gid) ==
    {i \in 1..Len(rows) : rows[i].user_id = uid /\ rows[i].google_id = gid}

\* a query on google_id alone, over the contacts of every user
MatchingAnyUser(uid, gid) ==
    { i \in 1..Len(contacts) : contacts[i].google_id = gid }

\* a comparison that takes a NULL google_id for the empty string
MatchingNullAsEmpty(uid, gid) ==
    { i \in 1..Len(contacts) :
        /\ contacts[i].user_id = uid
        /\ \/ contacts[i].google_id = gid
           \/ contacts[i].google_id = None /\ gid = "" }

\* SELECT ... WHERE user_id = :u AND google_id = :g  (NULL never equals :g)
Matching(uid, gid) ==
    { i \in 1..Len(contacts) :
        contacts[i].user_id = uid /\ contacts[i].google_id = gid }

\* a lookup in the rows that were there when the runs started
LookupResultsStale(uid, gid) ==
    LET old == {i \in Matching(uid, gid) : \A r \in Runs : i <= trace[r].snap_len}
    IN IF old = {} THEN {NoContact} ELSE { contacts[i] : i \in old }

\* .scalars().first(): a matching row (no ORDER BY), None when there is none
LookupResults(uid, gid) ==
    IF Matching(uid, gid) = {} THEN {NoContact}
    ELSE { contacts[i] : i \in Matching(uid, gid) }

\* a diff that takes every differing value, empty ones included
ChangesErasing(contact, contact_data) ==
    [a \in {b \in Attrs : contact[b] # contact_data[b]} |-> contact_data[a]]

\* a diff that takes every non-empty value, equal ones included
ChangesRewriting(contact, contact_data) ==
    [a \in {b \in Attrs : Truthy(contact_data[b])} |-> contact_data[a]]

\* the changes dictionary _update_contact builds from the scalar columns
Changes(contact, contact_data) ==
    [a \in {b \in Attrs : contact[b] # contact_data[b] /\ Truthy(contact_data[b])}
        |-> contact_data[a]]

\* an append that leaves the changes dictionary as it was
WithLinksFlagUnset(ch) == ch

\* changes["social_links"] = True
WithLinksFlag(ch) ==
    [k \in DOMAIN ch \cup {"social_links"} |->
        IF k = "social_links" THEN TRUE ELSE ch[k]]

\* a result that reports an update whatever was changed
UpdatedAlways(ch) == TRUE

\* bool(changes)
Updated(ch) == DOMAIN ch # {}

\* a loop that appends every link of the record
NeedsAppendAlways(social_link, urls) == TRUE

\* the guard of the append inside _update_contact's loop
NeedsAppend(social_link, urls) == social_link.url \notin urls

\* {link.url for link in current_links}
UrlsOf(cid) ==
    { social_links[i].url :
        i \in {j \in 1..Len(social_links) : social_links[j].contact_id = cid} }

\* position of the next link at or after j the update loop appends, 0 if none
NextAppend(links, urls, j) ==
    LET todo == {k \in j..Len(links) : NeedsAppend(links[k], urls)}
    IN IF todo = {} THEN 0 ELSE CHOOSE k \in todo : \A m \in todo : k <= m

\* the value a column holds after UPDATE ... SET with the keyword arguments ch
Written(ch, a, old) == IF a \in DOMAIN ch THEN ch[a] ELSE old

\* DatabaseManager.update_contact(id, **changes): UPDATE contacts SET ... WHERE id = :id
ApplyChanges(rows, id, ch) ==
    [rows EXCEPT ![id] =
        [@ EXCEPT !.name = Written(ch, "name", @),
                  !.email = Written(ch, "email", @),
                  !.phone = Written(ch, "phone", @),
                  !.company = Written(ch, "company", @),
                  !.position = Written(ch, "position", @),
                  !.notes = Written(ch, "notes", @)]]

\* ---------------------------------------------------------------- frames
IdleFrame ==
    [pc |-> "idle", user_id |-> 0, contact_data |-> <<>>, idx |-> 1,
     stats |-> NewStats(0), existing_contact |-> NoContact,
     changes |-> <<>>, current_urls |-> {}, link_idx |-> 0, contact_id |-> 0]

\* observation of the record a run handled last: the store calls issued for
\* it, the call that raised, the contact created for it, the URLs the matched
\* contact had when it was matched; the outcome of every record so far; and
\* the number of rows the contacts table had when the run started
IdleTrace ==
    [calls |-> <<>>, outcomes |-> <<>>, raised |-> "none", created |-> 0,
     had_urls |-> {}, snap_len |-> 0]

\* the trace when the loop turns to its next record
NextRecordTrace(t) ==
    [IdleTrace EXCEPT !.outcomes = t.outcomes, !.snap_len = t.snap_len]

\* the record the loop is at (the loop variable contact_data)
Current(f) == f.contact_data

\* a row of the users table as sync_contacts_from_google reads it; expired is
\* token_expiry and token_expiry <= now
UserRow(id, token, expired, refresh) ==
    [id |-> id, google_token |-> token, expired |-> expired,
     google_refresh_token |-> refresh]

\* the None get_user_by_telegram_id returns for an unknown telegram_id
NoUser == UserRow(0, None, FALSE, None)

\* what get_user_by_telegram_id can return
Users ==
    { NoUser,
      UserRow(1, None, FALSE, None),
      UserRow(1, "tok", FALSE, "ref"),
      UserRow(1, "tok", TRUE, "ref"),
      UserRow(1, "tok", TRUE, None) }

\* a check of the user row alone, whatever its google_token is
AuthorizedAnyUser(user) == user # NoUser

\* not (not user or not user.google_token)
Authorized(user) == user # NoUser /\ Truthy(user.google_token)

\* user.token_expiry and user.token_expiry <= now and user.google_refresh_token
NeedsRefresh(user) == user.expired /\ Truthy(user.google_refresh_token)

\* sync_contacts_from_google before it is called: pc is the await it stands
\* at or how it ended, sync_log the id of the row create_sync_log returned
\* (0: the local is unset), error the message of the exception caught, and
\* opens / closes / fetches count the create_sync_log / update_sync_log /
\* get_contacts calls made
IdleSync ==
    [pc |-> "idle", user |-> NoUser, sync_log |-> 0, error |-> None,
     opens |-> 0, closes |-> 0, fetches |-> 0]

\* SyncLog(user_id=user_id) with the column defaults
SyncLogRow(uid) ==
    [user_id |-> uid, end_time |-> None, success |-> FALSE,
     total_contacts |-> 0, added_contacts |-> 0, updated_contacts |-> 0,
     failed_contacts |-> 0, skipped_contacts |-> 0, error_message |-> None]

\* the update_data dictionary, as a value stored in a column
UpdateData == "<update_data>"

\* a key the dictionary does not have
Absent == "<absent>"

\* dict.get(key, default) on the value v stored under the key
Get(v, default) == IF v = Absent THEN default ELSE v

\* metadata.primary of an entry: true, false, or no such key
Flags == {"true", "false", Absent}

\* the text an entry can carry under a key
Texts == {"a", "b", Absent}

\* the entries of names; of emailAddresses, phoneNumbers and biographies;
\* of organizations; and of urls
NameEntries == [primary : Flags, displayName : Texts]
ValueEntries == [primary : Flags, value : Texts]
OrgEntries == [primary : Flags, name : Texts, title : {"a", Absent}]
UrlEntries == [primary : {"true", "false"}, type : {"linkedin", Absent},
               value : {"https://li/ann", "https://li/cid", Absent}]

\* a list-valued key of a connection: whether the connection has the key,
\* and the list stored under it
Listed(list) == [present |-> TRUE, list |-> list]

\* a list-valued key the connection does not have
NotListed == [present |-> FALSE, list |-> <<>>]

\* the lists of at most MaxEntries entries
ListsOf(entries) ==
    { Listed(l) : l \in UNION { [1..n -> entries] : n \in 0..MaxEntries } }

\* a connection of the People API with no field at all
EmptyRaw ==
    [resourceName |-> Absent, names |-> NotListed, emailAddresses |-> NotListed,
     phoneNumbers |-> NotListed, organizations |-> NotListed,
     biographies |-> NotListed, urls |-> NotListed]

\* the connections the fetch can hand to _process_contact_data: one with
\* nothing but a resourceName, and those with one key holding a list
RawRecords ==
    LET filled ==
            {EmptyRaw, [EmptyRaw EXCEPT !.resourceName = "people/c1"]}
            \cup { [EmptyRaw EXCEPT !.names = l] : l \in ListsOf(NameEntries) }
            \cup { [EmptyRaw EXCEPT ![k] = l] :
                        k \in {"emailAddresses", "phoneNumbers", "biographies"},
                        l \in ListsOf(ValueEntries) }
            \cup { [EmptyRaw EXCEPT !.organizations = l] : l \in ListsOf(OrgEntries) }
            \cup { [EmptyRaw EXCEPT !.urls = l] : l \in ListsOf(UrlEntries) }
    IN filled

\* _process_contact_data before it is called
IdleExtract == [pc |-> "idle", raw |-> EmptyRaw, out |-> <<>>]

\* get_contacts before it is called: pc is the await it stands at or how it
\* ended, authorization the token of the Authorization header, contacts the
\* list it fills, out the list it returned; pages counts the responses it
\* took connections from, served holds those connections, sent the requests
\* made with the response each got, refreshes the refresh_access_token calls
\* that returned
IdleFetch ==
    [pc |-> "idle", refresh_token |-> None, authorization |-> None,
     next_page_token |-> 0, contacts |-> <<>>, out |-> <<>>, error |-> None,
     pages |-> 0, served |-> <<>>, sent |-> <<>>, refreshes |-> 0]

\* the columns of a users row the handlers of the bot read; token_expiry is
\* None, or lies in the past or in the future of datetime.utcnow()
BotUser(token, expiry, refresh) ==
    [google_token |-> token, token_expiry |-> expiry,
     google_refresh_token |-> refresh]

\* the rows the users table can hold for the user of the chat: one that
\* never authorized, and rows update_google_tokens has written
BotUsers ==
    { BotUser(None, None, None),
      BotUser("tok", "future", "ref"),
      BotUser("tok", "future", None),
      BotUser("tok", "past", "ref"),
      BotUser("tok", "past", None) }

\* texts a user sends: an authorization code of Google and two others
MessageTexts == {"4/0AX4XfWh-authorization-code", "4/short", "hello"}

\* message_text.startswith('4/') and '/' in message_text and len(message_text) > 20
IsAuthCode(text) == text = "4/0AX4XfWh-authorization-code"

\* DatabaseManager.is_google_authorized on the row user
IsGoogleAuthorized(user) ==
    IF ~Truthy(user.google_token) \/ user.token_expiry = None THEN FALSE
    ELSE user.token_expiry = "future"

\* a chat before its first update: loaded tells whether the users row has
\* been read, auth_code is context.user_data['auth_code'], last the event
\* handled last, reply what the handler answered, and called whether the
\* last /sync called sync_contacts_from_google
IdleBot ==
    [loaded |-> FALSE, user |-> BotUser(None, None, None), auth_code |-> None,
     last |-> "none", reply |-> "none", called |-> FALSE]

\* the row add_sync_log stores for the dictionary _create_sync_log builds
ManagerLogRow(uid) ==
    [user_id |-> uid, status |-> "in_progress", start_time |-> "utcnow",
     end_time |-> None, success |-> FALSE, total_contacts |-> 0,
     added_contacts |-> 0, updated_contacts |-> 0, failed_contacts |-> 0,
     skipped_contacts |-> 0, error_message |-> None]

\* the SyncManager before its first call: pc is the await it stands at or
\* how the call ended, calls counts the calls made, via_sync tells a call of
\* sync_contacts from one of _process_contacts, sync_logs are the rows
\* add_sync_log stored and sync_log the id of the row of this call, updates
\* counts the _update_sync_log calls of this call, existing is the dictionary
\* existing_by_google_id, and idx and result are the loop position and the
\* counters of _process_contacts
IdleManager ==
    [pc |-> "idle", calls |-> 0, via_sync |-> FALSE, user |-> NoUser,
     sync_logs |-> <<>>, sync_log |-> 0, error |-> None, updates |-> 0,
     existing |-> {}, idx |-> 1, result |-> NewStats(0)]

\* no sync is being repeated: pass counts the runs of the repeated sync,
\* input is the list of Google contacts of its first run, first the outcomes
\* and stored the two tables when the first run returned
NoReplay == [pass |-> 0, input |-> <<>>, first |-> <<>>, stored |-> <<>>]

Init ==
    /\ \E s \in InitialStores :
        /\ contacts = s.contacts
        /\ social_links = s.social_links
    /\ frame = [r \in Tasks |-> IdleFrame]
    /\ trace = [r \in Tasks |-> IdleTrace]
    /\ replay = NoReplay
    /\ sync = IdleSync
    /\ sync_logs = <<>>
    /\ extract = IdleExtract
    /\ fetch = IdleFetch
    /\ bot = IdleBot
    /\ manager = IdleManager

\* ------------------------------------------------------------- run steps
\* one store call noted in the trace: the operation, the contact it is
\* aimed at (0 for a create) and whether it returned
Call(op, cid, ok) == [op |-> op, id |-> cid, ok |-> ok]

\* the record at idx has been classified: count it and move to the next one
\* (the locals of _create_contact / _update_contact are gone with their frames)
Classified(f, outcome) ==
    [f EXCEPT !.stats = Bump(@, outcome), !.idx = @ + 1, !.pc = "loop",
              !.changes = <<>>, !.current_urls = {}, !.link_idx = 0,
              !.contact_id = 0]

\* an except clause that goes on without counting the record
HandleExceptionUncounted(f) ==
    [Classified(f, "failed") EXCEPT !.stats = f.stats]

\* an except clause that lets the exception leave _process_contacts
HandleExceptionReraised(f) ==
    [Classified(f, "failed") EXCEPT !.pc = "raised"]

\* except Exception: stats["failed"] += 1, then the loop goes on
HandleException(f) == Classified(f, "failed")

\* a store call of run r, whose frame is f, raises; the except clause of the
\* loop body runs
Raises(r, f, op, cid) ==
    /\ frame' = [frame EXCEPT ![r] = HandleException(f)]
    /\ trace' = [trace EXCEPT ![r] =
                    IF op = "get_contact_by_google_id"
                    THEN [NextRecordTrace(@) EXCEPT
                                !.calls = <<Call(op, cid, FALSE)>>,
                                !.outcomes = Append(@, "failed"),
                                !.raised = op]
                    ELSE [@ EXCEPT !.calls = Append(@, Call(op, cid, FALSE)),
                                   !.outcomes = Append(@, "failed"),
                                   !.raised = op]]
    /\ UNCHANGED <<contacts, social_links>>

\* ghost bookkeeping of a call that returned; outcome is "" while the
\* record is still being processed
Noted(t, op, cid, outcome) ==
    [t EXCEPT !.calls = Append(@, Call(op, cid, TRUE)),
              !.outcomes = IF outcome = "" THEN @ ELSE Append(@, outcome)]

\* sync_contacts_from_google reaches _process_contacts(user.id, google_contacts);
\* n is len(google_contacts).  The list is read one element per iteration
\* and nowhere else, so its elements are drawn when the loop reaches them.
StartWith(r, users, sizes) ==
    /\ frame[r].pc \in {"idle", "done"}
    /\ \E uid \in users, n \in sizes :
        frame' = [frame EXCEPT ![r] =
                    [IdleFrame EXCEPT !.pc = "loop", !.user_id = uid,
                                      !.stats = NewStats(n)]]
    /\ trace' = [trace EXCEPT ![r] = [IdleTrace EXCEPT !.snap_len = Len(contacts)]]
    /\ UNCHANGED <<contacts, social_links>>

\* a run for any synchronised user with any list of at most MaxBatch contacts
Start(r) == StartWith(r, SyncUsers, 0..MaxBatch) /\ UNCHANGED outside

\* a loop body that creates a contact whatever the lookup returned
AfterLookupCreating(f, found) ==
    [f EXCEPT !.existing_contact = found, !.pc = "add_contact"]

\* the frame after get_contact_by_google_id returned found
AfterLookup(f, found) ==
    IF found # NoContact
    THEN [f EXCEPT !.existing_contact = found,
                   !.changes = Changes(found, Current(f)),
                   !.pc = IF Updated(Changes(found, Current(f)))
                          THEN "update_contact" ELSE "get_social_links"]
    ELSE [f EXCEPT !.existing_contact = found, !.pc = "add_contact"]

\* loop body, first await: get_contact_by_google_id(user_id, contact_data["google_id"]);
\* records is what the list can hold at the position the loop is at
LookupFrom(r, records) ==
    /\ frame[r].pc = "loop"
    /\ frame[r].idx <= frame[r].stats.total
    /\ \E d \in records :
       LET f == [frame[r] EXCEPT !.contact_data = d]
       IN
       \/ Raises(r, f, "get_contact_by_google_id", 0)
       \/ /\ \E found \in LookupResults(f.user_id, d.google_id) :
                frame' = [frame EXCEPT ![r] = AfterLookup(f, found)]
          /\ trace' = [trace EXCEPT ![r] =
                [NextRecordTrace(@) EXCEPT
                    !.had_urls = UrlsOf(frame'[r].existing_contact.id)]]
          /\ UNCHANGED <<contacts, social_links>>

Lookup(r) == LookupFrom(r, InputRecords) /\ UNCHANGED outside

\* the for loop is exhausted: return stats
ReturnStats(r) ==
    /\ frame[r].pc = "loop"
    /\ frame[r].idx > frame[r].stats.total
    /\ frame' = [frame EXCEPT ![r].pc = "done"]
    /\ UNCHANGED <<contacts, social_links, trace>>

Return(r) == ReturnStats(r) /\ UNCHANGED outside

\* keyword arguments with email and phone taken from each other's key
CreateArgsSwapped(uid, d) ==
    [user_id |-> uid, name |-> d.name, email |-> d.phone, phone |-> d.email,
     google_id |-> d.google_id, company |-> d.company,
     position |-> d.position, notes |-> d.notes]

\* the keyword arguments _create_contact passes to add_contact
CreateArgs(uid, d) ==
    [user_id |-> uid, name |-> d.name, email |-> d.email, phone |-> d.phone,
     google_id |-> d.google_id, company |-> d.company,
     position |-> d.position, notes |-> d.notes]

\* DatabaseManager.add_contact(**args): INSERT INTO contacts, id autoincrement
InsertContact(rows, args) ==
    Append(rows, ContactRow(Len(rows) + 1, args.user_id, args.google_id,
                            args.name, args.email, args.phone, args.company,
                            args.position, args.notes))

\* DatabaseManager.add_social_link(contact_id, platform, url): INSERT INTO social_links
InsertSocialLink(rows, cid, social_link) ==
    Append(rows, SocialLinkRow(cid, social_link.platform, social_link.url))

\* a create that looks the google_id up once more and inserts no second row
AddContactIfAbsent(r) ==
    /\ frame[r].pc = "add_contact"
    /\ contacts' =
            IF OwnRows(contacts, frame[r].user_id, Current(frame[r]).google_id) = {}
            THEN InsertContact(contacts, CreateArgs(frame[r].user_id, Current(frame[r])))
            ELSE contacts
    /\ frame' = [frame EXCEPT ![r] = Classified(@, "added")]
    /\ trace' = [trace EXCEPT ![r] =
            Noted([@ EXCEPT !.created = Len(contacts')], "add_contact", 0, "added")]
    /\ UNCHANGED <<social_links>>

\* _create_contact, first await: add_contact; with no links the record is added
AddContact(r) ==
    /\ frame[r].pc = "add_contact"
    /\ \/ Raises(r, frame[r], "add_contact", 0)
       \/ LET f == frame[r]
              d == Current(f)
              done == d.social_links = <<>>
          IN /\ contacts' = InsertContact(contacts, CreateArgs(f.user_id, d))
             /\ frame' = [frame EXCEPT ![r] =
                    IF done
                    THEN Classified([f EXCEPT !.contact_id = Len(contacts) + 1], "added")
                    ELSE [f EXCEPT !.contact_id = Len(contacts) + 1,
                                   !.link_idx = 1, !.pc = "create_links"]]
             /\ trace' = [trace EXCEPT ![r] =
                    Noted([@ EXCEPT !.created = Len(contacts) + 1],
                          "add_contact", 0, IF done THEN "added" ELSE "")]
             /\ UNCHANGED <<social_links>>

\* _create_contact, loop over contact_data["social_links"]: add_social_link
AddLinkOnCreate(r) ==
    /\ frame[r].pc = "create_links"
    /\ \/ Raises(r, frame[r], "add_social_link", frame[r].contact_id)
       \/ LET f == frame[r]
              links == Current(f).social_links
              done == f.link_idx = Len(links)
          IN /\ social_links' = InsertSocialLink(social_links, f.contact_id, links[f.link_idx])
             /\ frame' = [frame EXCEPT ![r] =
                    IF done THEN Classified(f, "added")
                    ELSE [f EXCEPT !.link_idx = @ + 1]]
             /\ trace' = [trace EXCEPT ![r] =
                    Noted(@, "add_social_link", f.contact_id, IF done THEN "added" ELSE "")]
             /\ UNCHANGED <<contacts>>

\* an update that writes the contact anew and drops its social links
UpdateContactReplacing(r) ==
    /\ frame[r].pc = "update_contact"
    /\ contacts' = ApplyChanges(contacts, frame[r].existing_contact.id, frame[r].changes)
    /\ social_links' = SelectSeq(social_links,
            LAMBDA x : x.contact_id # frame[r].existing_contact.id)
    /\ frame' = [frame EXCEPT ![r].pc = "get_social_links"]
    /\ trace' = [trace EXCEPT ![r] =
            Noted(@, "update_contact", frame[r].existing_contact.id, "")]

\* _update_contact: if changes: update_contact(contact.id, **changes)
UpdateContact(r) ==
    /\ frame[r].pc = "update_contact"
    /\ \/ Raises(r, frame[r], "update_contact", frame[r].existing_contact.id)
       \/ LET f == frame[r]
          IN /\ contacts' = ApplyChanges(contacts, f.existing_contact.id, f.changes)
             /\ frame' = [frame EXCEPT ![r].pc = "get_social_links"]
             /\ trace' = [trace EXCEPT ![r] =
                    Noted(@, "update_contact", f.existing_contact.id, "")]
             /\ UNCHANGED <<social_links>>

\* if updated: stats["updated"] += 1 else: stats["skipped"] += 1
Outcome(ch) == IF Updated(ch) THEN "updated" ELSE "skipped"

\* the frame of the update path with link position j next (0: loop finished)
AfterLinks(f, j) ==
    IF j = 0 THEN Classified(f, Outcome(f.changes))
    ELSE [f EXCEPT !.link_idx = j, !.pc = "update_links"]

\* _update_contact: current_links = get_social_links(contact.id), then the
\* loop runs up to its first append
GetSocialLinks(r) ==
    /\ frame[r].pc = "get_social_links"
    /\ \/ Raises(r, frame[r], "get_social_links", frame[r].existing_contact.id)
       \/ LET f == frame[r]
              urls == UrlsOf(f.existing_contact.id)
              j == NextAppend(Current(f).social_links, urls, 1)
          IN /\ frame' = [frame EXCEPT ![r] =
                    AfterLinks([f EXCEPT !.current_urls = urls], j)]
             /\ trace' = [trace EXCEPT ![r].outcomes =
                    IF j = 0 THEN Append(@, Outcome(f.changes)) ELSE @]
             /\ UNCHANGED <<contacts, social_links>>

\* _update_contact, loop: add_social_link for a URL not in current_urls, then
\* the loop runs up to its next append
AddLinkOnUpdate(r) ==
    /\ frame[r].pc = "update_links"
    /\ \/ Raises(r, frame[r], "add_social_link", frame[r].existing_contact.id)
       \/ LET f == frame[r]
              links == Current(f).social_links
              ch == WithLinksFlag(f.changes)
              j == NextAppend(links, f.current_urls, f.link_idx + 1)
          IN /\ social_links' = InsertSocialLink(social_links, f.existing_contact.id,
                                                 links[f.link_idx])
             /\ frame' = [frame EXCEPT ![r] = AfterLinks([f EXCEPT !.changes = ch], j)]
             /\ trace' = [trace EXCEPT ![r] =
                    Noted(@, "add_social_link", f.existing_contact.id,
                          IF j = 0 THEN Outcome(ch) ELSE "")]
             /\ UNCHANGED <<contacts>>

Step(r) ==
    \/ Start(r)
    \/ Lookup(r)
    \/ Return(r)
    \/ AddContact(r) /\ UNCHANGED outside
    \/ AddLinkOnCreate(r) /\ UNCHANGED outside
    \/ UpdateContact(r) /\ UNCHANGED outside
    \/ GetSocialLinks(r) /\ UNCHANGED outside
    \/ AddLinkOnUpdate(r) /\ UNCHANGED outside

Next == \E r \in Runs : Step(r)

Spec == Init /\ [][Next]_vars

TypeOK ==
    \A r \in Runs : frame[r].idx \in 1..(frame[r].stats.total + 1)

\* ---------------------------------------------- _process_contact_data
\* str.replace("people/", "") on the resource names the model has
StripPeople(name) ==
    CASE name = "people/c1" -> "c1"
      [] name = "people/" -> ""
      [] OTHER -> name

\* contact_data.get(field, [])
GetList(field) == IF field.present THEN field.list ELSE <<>>

\* entry.get("metadata", {}).get("primary", False)
IsPrimary(entry) == Get(entry.primary, "false") = "true"

\* a selection that takes the first entry whatever the flags are
PrimaryOfFirst(list) == list[1]

\* next((e for e in list if e.get("metadata", {}).get("primary", False)), list[0])
PrimaryOf(list) ==
    LET flagged == {i \in 1..Len(list) : IsPrimary(list[i])}
    IN IF flagged = {} THEN list[1]
       ELSE list[CHOOSE i \in flagged : \A j \in flagged : i <= j]

\* "if list:" and the value under key of the selected entry; the result
\* keeps its initial "" when the list is empty
Extracted(list, key) ==
    IF list = <<>> THEN ""
    ELSE Get(PrimaryOf(list)[key], "")

\* a loop that leaves out a URL it has already appended
SocialLinksOfDistinct(urls) ==
    LET all == [i \in 1..Len(urls) |->
                    Link(Get(urls[i].type, "website"), Get(urls[i].value, ""))]
        first == {i \in 1..Len(all) : \A j \in 1..(i - 1) : all[j].url # all[i].url}
        F[i \in 0..Len(all)] ==
            IF i = 0 THEN <<>>
            ELSE IF i \in first THEN Append(F[i - 1], all[i]) ELSE F[i - 1]
    IN F[Len(all)]

\* for url in urls: append {"platform": url.get("type", "website"),
\* "url": url.get("value", "")}
SocialLinksOf(urls) ==
    [i \in 1..Len(urls) |->
        Link(Get(urls[i].type, "website"), Get(urls[i].value, ""))]

\* the dictionary _process_contact_data returns for the connection raw
ProcessContactData(raw) ==
    Normalized(StripPeople(Get(raw.resourceName, "")),
               Extracted(GetList(raw.names), "displayName"),
               Extracted(GetList(raw.emailAddresses), "value"),
               Extracted(GetList(raw.phoneNumbers), "value"),
               Extracted(GetList(raw.organizations), "name"),
               Extracted(GetList(raw.organizations), "title"),
               Extracted(GetList(raw.biographies), "value"),
               SocialLinksOf(GetList(raw.urls)))

\* get_contacts reaches a connection of the page and passes it on
Receive ==
    /\ extract.pc = "idle"
    /\ \E raw \in RawRecords :
            extract' = [pc |-> "called", raw |-> raw, out |-> <<>>]
    /\ UNCHANGED <<adapter, beyond>>

\* _process_contact_data runs and returns result
Extract ==
    /\ extract.pc = "called"
    /\ extract' = [extract EXCEPT !.pc = "returned",
                                  !.out = ProcessContactData(extract.raw)]
    /\ UNCHANGED <<adapter, beyond>>

NextExtract == Receive \/ Extract

SpecExtract == Init /\ [][NextExtract]_vars

\* ------------------------------------------ sync_contacts_from_google
\* the body of DatabaseManager.update_sync_log on the row with the given id
UpdateSyncLog(rows, id, end_time, success, total, added, updated, failed, skipped, error_message) ==
    [rows EXCEPT ![id] =
        [@ EXCEPT !.end_time = IF Truthy(end_time) THEN end_time ELSE @,
                  !.success = success,
                  !.total_contacts = total,
                  !.added_contacts = added,
                  !.updated_contacts = updated,
                  !.failed_contacts = failed,
                  !.skipped_contacts = skipped,
                  !.error_message = IF Truthy(error_message)
                                    THEN error_message ELSE @]]

\* update_sync_log(sync_log.id, update_data): the dictionary is the second
\* positional argument, end_time; every other parameter has its default
CloseRun(rows, id, success, error_message) ==
    UpdateSyncLog(rows, id, UpdateData, FALSE, 0, 0, 0, 0, 0, None)

\* except Exception as e: with sync_log set the log is updated next,
\* without it the failure dictionary is returned
OnException(sy, message) ==
    [sy EXCEPT !.pc = IF sy.sync_log # 0 THEN "handler" ELSE "returned_failure",
               !.error = message]

\* line 106: get_user_by_telegram_id, then the authorization check and the
\* token expiry check
GetUser ==
    /\ sync.pc = "idle"
    /\ \/ sync' = OnException(sync, "get_user_by_telegram_id")
       \/ \E user \in Users :
            sync' = [sync EXCEPT
                        !.user = user,
                        !.error = IF Authorized(user) THEN @ ELSE "ValueError",
                        !.pc = IF ~Authorized(user) THEN "raised"
                               ELSE IF NeedsRefresh(user) THEN "refresh"
                               ELSE "create_sync_log"]
    /\ UNCHANGED <<contacts, social_links, frame, trace, sync_logs, apart>>

\* lines 116-124: refresh_access_token raises, or it returns a dictionary
\* with neither expires_in_timedelta nor expires_in and datetime + 3600
\* raises TypeError; update_user is not reached
RefreshToken ==
    /\ sync.pc = "refresh"
    /\ \E message \in {"refresh_access_token", "TypeError"} :
            sync' = OnException(sync, message)
    /\ UNCHANGED <<contacts, social_links, frame, trace, sync_logs, apart>>

\* line 128: sync_log = create_sync_log(user.id)
CreateSyncLog ==
    /\ sync.pc = "create_sync_log"
    /\ \/ /\ sync' = OnException([sync EXCEPT !.opens = @ + 1], "create_sync_log")
          /\ UNCHANGED sync_logs
       \/ /\ sync_logs' = Append(sync_logs, SyncLogRow(sync.user.id))
          /\ sync' = [sync EXCEPT !.opens = @ + 1,
                                  !.sync_log = Len(sync_logs) + 1,
                                  !.pc = "get_contacts"]
    /\ UNCHANGED <<contacts, social_links, frame, trace, apart>>

\* line 131: google_contacts = get_contacts(...)
GetContacts ==
    /\ sync.pc = "get_contacts"
    /\ \/ sync' = OnException([sync EXCEPT !.fetches = @ + 1], "get_contacts")
       \/ sync' = [sync EXCEPT !.fetches = @ + 1, !.pc = "process_contacts"]
    /\ UNCHANGED <<contacts, social_links, frame, trace, sync_logs, apart>>

\* line 134: _process_contacts(user.id, google_contacts) is entered
ProcessContacts(r) ==
    /\ sync.pc = "process_contacts"
    /\ StartWith(r, {sync.user.id}, 0..MaxBatch)
    /\ sync' = [sync EXCEPT !.pc = "processing"]
    /\ UNCHANGED <<sync_logs, apart>>

\* line 134: _process_contacts returns result
ReturnResult(r) ==
    /\ sync.pc = "processing"
    /\ ReturnStats(r)
    /\ sync' = [sync EXCEPT !.pc = "update_sync_log"]
    /\ UNCHANGED <<sync_logs, apart>>

\* line 146: update_sync_log(sync_log.id, update_data) with success True;
\* the call raises (a dictionary is no value for the DateTime column), or
\* it returns and the success dictionary is returned
CloseOnSuccess ==
    /\ sync.pc = "update_sync_log"
    /\ \/ /\ sync' = OnException([sync EXCEPT !.closes = @ + 1], "update_sync_log")
          /\ UNCHANGED sync_logs
       \/ /\ sync_logs' = CloseRun(sync_logs, sync.sync_log, TRUE, None)
          /\ sync' = [sync EXCEPT !.closes = @ + 1, !.pc = "returned_success"]
    /\ UNCHANGED <<contacts, social_links, frame, trace, apart>>

\* lines 161-179: update_sync_log(sync_log.id, update_data) with success
\* False and error_message str(e); when the call raises the exception leaves
\* the except clause, else the failure dictionary is returned
CloseOnFailure ==
    /\ sync.pc = "handler"
    /\ \/ /\ sync' = [sync EXCEPT !.closes = @ + 1, !.pc = "raised"]
          /\ UNCHANGED sync_logs
       \/ /\ sync_logs' = CloseRun(sync_logs, sync.sync_log, FALSE, sync.error)
          /\ sync' = [sync EXCEPT !.closes = @ + 1, !.pc = "returned_failure"]
    /\ UNCHANGED <<contacts, social_links, frame, trace, apart>>

\* the awaits of sync_contacts_from_google after line 106
Awaits == {"refresh", "create_sync_log", "get_contacts", "processing",
           "update_sync_log", "handler"}

\* the task is cancelled while it waits: CancelledError is raised at the
\* await; it is a BaseException, which neither except clause catches
Cancel(r) ==
    /\ sync.pc \in Awaits
    /\ sync.pc = "processing" => frame[r].idx <= frame[r].stats.total
    /\ sync' = [sync EXCEPT !.pc = "cancelled", !.error = "CancelledError"]
    /\ frame' = [frame EXCEPT ![r].pc = IF sync.pc = "processing"
                                        THEN "cancelled" ELSE @]
    /\ UNCHANGED <<contacts, social_links, trace, sync_logs, apart>>

StepSync(r) ==
    \/ GetUser
    \/ RefreshToken
    \/ CreateSyncLog
    \/ GetContacts
    \/ ProcessContacts(r)
    \/ Lookup(r)
    \/ AddContact(r) /\ UNCHANGED outside
    \/ AddLinkOnCreate(r) /\ UNCHANGED outside
    \/ UpdateContact(r) /\ UNCHANGED outside
    \/ GetSocialLinks(r) /\ UNCHANGED outside
    \/ AddLinkOnUpdate(r) /\ UNCHANGED outside
    \/ ReturnResult(r)
    \/ CloseOnSuccess
    \/ CloseOnFailure
    \/ Cancel(r)

NextSync == \E r \in Runs : StepSync(r)

SpecSync == Init /\ [][NextSync]_vars

\* --------------------------------------------- two overlapping syncs
\* _process_contacts is entered by a task that has not run yet, with a list
\* of one contact
StartOnce(r) ==
    /\ frame[r].pc = "idle"
    /\ StartWith(r, SyncUsers, {1})
    /\ UNCHANGED outside

\* the event loop resumes either task at its await
StepConc(r) ==
    \/ StartOnce(r)
    \/ Lookup(r)
    \/ Return(r)
    \/ AddContact(r) /\ UNCHANGED outside
    \/ AddLinkOnCreate(r) /\ UNCHANGED outside
    \/ UpdateContact(r) /\ UNCHANGED outside
    \/ GetSocialLinks(r) /\ UNCHANGED outside
    \/ AddLinkOnUpdate(r) /\ UNCHANGED outside

NextConc == \E r \in Tasks : StepConc(r)

SpecConc == Init /\ [][NextConc]_vars

\* ------------------------------------------- the same sync run twice
\* first call of _process_contacts of the repeated sync
StartFirst(r) ==
    /\ replay.pass = 0
    /\ StartWith(r, SyncUsers, 0..MaxBatch)
    /\ replay' = [replay EXCEPT !.pass = 1]
    /\ UNCHANGED <<sync, sync_logs, extract, beyond>>

\* the first run reads the next element of google_contacts
LookupFirst(r) ==
    /\ replay.pass = 1
    /\ LookupFrom(r, InputRecords)
    /\ replay' = [replay EXCEPT !.input = Append(@, frame'[r].contact_data)]
    /\ UNCHANGED <<sync, sync_logs, extract, beyond>>

\* the first run returns its statistics
ReturnFirst(r) ==
    /\ replay.pass = 1
    /\ ReturnStats(r)
    /\ replay' = [replay EXCEPT !.first = trace[r].outcomes,
                                !.stored = <<contacts, social_links>>]
    /\ UNCHANGED <<sync, sync_logs, extract, beyond>>

\* second call of _process_contacts, same user_id and same google_contacts
StartSecond(r) ==
    /\ replay.pass = 1
    /\ frame[r].pc = "done"
    /\ StartWith(r, {frame[r].user_id}, {Len(replay.input)})
    /\ replay' = [replay EXCEPT !.pass = 2]
    /\ UNCHANGED <<sync, sync_logs, extract, beyond>>

\* the second run reads the element the first run read at this position
LookupSecond(r) ==
    /\ replay.pass = 2
    /\ frame[r].idx <= Len(replay.input)
    /\ LookupFrom(r, {replay.input[frame[r].idx]})
    /\ UNCHANGED outside

\* the second run returns its statistics
ReturnSecond(r) ==
    /\ replay.pass = 2
    /\ ReturnStats(r)
    /\ UNCHANGED outside

StepTwice(r) ==
    \/ StartFirst(r)
    \/ LookupFirst(r)
    \/ ReturnFirst(r)
    \/ StartSecond(r)
    \/ LookupSecond(r)
    \/ ReturnSecond(r)
    \/ AddContact(r) /\ UNCHANGED outside
    \/ AddLinkOnCreate(r) /\ UNCHANGED outside
    \/ UpdateContact(r) /\ UNCHANGED outside
    \/ GetSocialLinks(r) /\ UNCHANGED outside
    \/ AddLinkOnUpdate(r) /\ UNCHANGED outside

NextTwice == \E r \in Runs : StepTwice(r)

SpecTwice == Init /\ [][NextTwice]_vars

\* ------------------------------------------------------- get_contacts
\* connections of a People API response: one with a resourceName, one with
\* no key, and one whose resourceName is null
Connections ==
    { [EmptyRaw EXCEPT !.resourceName = "people/c1"],
      EmptyRaw,
      [EmptyRaw EXCEPT !.resourceName = None] }

\* data.get("connections", []) of one response: at most MaxBatch connections
PageContents == UNION { [1..n -> Connections] : n \in 0..MaxBatch }

\* HTTP status codes of a response to connections.list
Statuses == {200, 401, 500}

\* contact_data.get("resourceName", "").replace(...) on a null resourceName:
\* None has no replace, AttributeError
ExtractionRaises(raw) == raw.resourceName = None

\* one client.get with the response it got; page is the page asked for and
\* retry tells the second request of lines 178-181 from the first
Request(f, retry, status) ==
    [page |-> f.pages + 1, page_token |-> f.next_page_token,
     authorization |-> f.authorization, retry |-> retry, status |-> status]

\* except Exception: raise Exception("Не удалось получить контакты: ...")
Abort(f, message) == [f EXCEPT !.pc = "raised", !.error = message]

\* lines 183-193 on the response of the last request of f: raise_for_status,
\* the connections are run through _process_contact_data and appended, and the
\* loop goes on when the response has a nextPageToken (page n + 1 is asked
\* for with the token n; 0 is no token)
Respond(f, status) ==
    IF status # 200 THEN fetch' = Abort(f, "raise_for_status")
    ELSE \E connections \in PageContents :
         \E token \in (IF f.pages + 1 < MaxPages THEN {0, f.pages + 1} ELSE {0}) :
            IF \E i \in 1..Len(connections) : ExtractionRaises(connections[i])
            THEN fetch' = Abort(f, "_process_contact_data")
            ELSE LET extended == f.contacts \o
                        [i \in 1..Len(connections) |->
                            ProcessContactData(connections[i])]
                 IN fetch' = [f EXCEPT
                        !.contacts = extended,
                        !.served = @ \o connections,
                        !.pages = @ + 1,
                        !.next_page_token = token,
                        !.pc = IF token = 0 THEN "returned" ELSE "get",
                        !.out = IF token = 0 THEN extended ELSE @]

\* get_contacts(access_token, refresh_token) is called
CallGetContacts ==
    /\ fetch.pc = "idle"
    /\ \E refresh_token \in {None, "ref"} :
            fetch' = [IdleFetch EXCEPT !.pc = "get",
                                       !.refresh_token = refresh_token,
                                       !.authorization = "tok"]
    /\ UNCHANGED <<adapter, extract, bot, manager>>

\* line 175: client.get of the page; a 401 with a refresh token goes to the
\* refresh, any other response is handled
GetPage ==
    /\ fetch.pc = "get"
    /\ \E status \in Statuses :
         LET f == [fetch EXCEPT !.sent = Append(@, Request(fetch, FALSE, status))]
         IN IF status = 401 /\ Truthy(f.refresh_token)
            THEN fetch' = [f EXCEPT !.pc = "refresh"]
            ELSE Respond(f, status)
    /\ UNCHANGED <<adapter, extract, bot, manager>>

\* a refresh that leaves the Authorization header as it was
RefreshKeepingHeader ==
    /\ fetch.pc = "refresh"
    /\ \/ fetch' = Abort(fetch, "refresh_access_token")
       \/ fetch' = [fetch EXCEPT !.refreshes = @ + 1, !.pc = "retry"]
    /\ UNCHANGED <<adapter, extract, bot, manager>>

\* lines 179-180: refresh_access_token(refresh_token) raises, or it returns
\* and the header takes the new access token
Refresh ==
    /\ fetch.pc = "refresh"
    /\ \/ fetch' = Abort(fetch, "refresh_access_token")
       \/ fetch' = [fetch EXCEPT !.authorization = "new",
                                 !.refreshes = @ + 1,
                                 !.pc = "retry"]
    /\ UNCHANGED <<adapter, extract, bot, manager>>

\* line 181: the request is made once more; its response is handled
\* whatever its status is
Retry ==
    /\ fetch.pc = "retry"
    /\ \E status \in Statuses :
            Respond([fetch EXCEPT !.sent = Append(@, Request(fetch, TRUE, status))],
                    status)
    /\ UNCHANGED <<adapter, extract, bot, manager>>

NextFetch == CallGetContacts \/ GetPage \/ Refresh \/ Retry

SpecFetch == Init /\ [][NextFetch]_vars

\* ------------------------------------------------------------ the bot
\* the bot starts on the users table as the database file holds it
LoadUser ==
    /\ ~bot.loaded
    /\ \E user \in BotUsers : bot' = [bot EXCEPT !.loaded = TRUE, !.user = user]
    /\ UNCHANGED <<adapter, extract, fetch, manager>>

\* time passes token_expiry
TokenExpires ==
    /\ bot.loaded
    /\ bot.user.token_expiry = "future"
    /\ bot' = [bot EXCEPT !.user.token_expiry = "past", !.last = "clock"]
    /\ UNCHANGED <<adapter, extract, fetch, manager>>

\* handle_message: a text that looks like an authorization code is kept in
\* user_data, any other text is answered with a hint
HandleMessage ==
    /\ bot.loaded
    /\ \E text \in MessageTexts :
            bot' = [bot EXCEPT
                        !.last = "message",
                        !.called = FALSE,
                        !.reply = IF IsAuthCode(text) THEN "code_received"
                                  ELSE "cannot_process",
                        !.auth_code = IF IsAuthCode(text) THEN text ELSE @]
    /\ UNCHANGED <<adapter, extract, fetch, manager>>

\* /auth_code: TelegramBot._handle_auth_code calls handlers.handle_auth_code,
\* which is the second function of that name in the module (lines 447-486):
\* without a stored code it asks for one, else it answers that the code was
\* accepted and deletes it; the exchange of the code is commented out and
\* the users row is not written
HandleAuthCode ==
    /\ bot.loaded
    /\ bot' = [bot EXCEPT
                    !.last = "auth_code",
                    !.called = FALSE,
                    !.reply = IF Truthy(bot.auth_code) THEN "code_accepted"
                              ELSE "ask_code",
                    !.auth_code = None]
    /\ UNCHANGED <<adapter, extract, fetch, manager>>

\* /sync: handle_sync asks the user to authorize when is_google_authorized
\* is false; else it calls sync_contacts_from_google and shows the statistics
\* or the error
HandleSync ==
    /\ bot.loaded
    /\ \/ /\ ~IsGoogleAuthorized(bot.user)
          /\ bot' = [bot EXCEPT !.last = "sync", !.called = FALSE,
                                !.reply = "authorize"]
       \/ /\ IsGoogleAuthorized(bot.user)
          /\ \E reply \in {"stats", "error"} :
                bot' = [bot EXCEPT !.last = "sync", !.called = TRUE,
                                   !.reply = reply]
    /\ UNCHANGED <<adapter, extract, fetch, manager>>

NextBot == LoadUser \/ TokenExpires \/ HandleMessage \/ HandleAuthCode \/ HandleSync

SpecBot == Init /\ [][NextBot]_vars

\* -------------------------------------------------------- SyncManager
\* connections handed to SyncManager._process_contacts: one with a name and
\* an email address, the same contact without the email address, and one
\* without resourceName
ManagerRecords ==
    { [EmptyRaw EXCEPT
            !.resourceName = "people/c1",
            !.names = Listed(<<[primary |-> "true", displayName |-> "a"]>>),
            !.emailAddresses = Listed(<<[primary |-> "true", value |-> "b"]>>)],
      [EmptyRaw EXCEPT
            !.resourceName = "people/c1",
            !.names = Listed(<<[primary |-> "true", displayName |-> "a"]>>)],
      EmptyRaw }

\* what _process_contacts reads of a dictionary _process_contact_data
\* returned: it has none of the keys resourceName, id, names, emailAddresses,
\* phoneNumbers, biographies, organizations
ViewOf(contact_data) == EmptyRaw

\* contact_data.get('resourceName') or contact_data.get('id')
GoogleIdOf(raw) == Get(raw.resourceName, None)

\* the value _extract_contact_info takes from the first entry of a list, or
\* the initial value of the result
FirstOf(list, key, initial) ==
    IF list = <<>> THEN initial
    ELSE IF Truthy(Get(list[1][key], None)) THEN list[1][key] ELSE initial

\* SyncManager._extract_contact_info: all six keys, '' or None when the
\* connection has no value
ExtractContactInfo(raw) ==
    [name |-> FirstOf(GetList(raw.names), "displayName", ""),
     email |-> FirstOf(GetList(raw.emailAddresses), "value", None),
     phone |-> FirstOf(GetList(raw.phoneNumbers), "value", None),
     notes |-> FirstOf(GetList(raw.biographies), "value", None),
     company |-> FirstOf(GetList(raw.organizations), "name", None),
     position |-> FirstOf(GetList(raw.organizations), "title", None)]

\* {contact.google_id: contact for contact in existing_contacts if
\* contact.google_id}, as pairs; of two contacts with one google_id the
\* later one stays
ExistingByGoogleId(uid) ==
    LET own == {i \in 1..Len(contacts) :
                    contacts[i].user_id = uid /\ Truthy(contacts[i].google_id)}
    IN { [google_id |-> contacts[i].google_id, id |-> i] :
            i \in {j \in own : \A k \in own :
                        contacts[k].google_id = contacts[j].google_id => k <= j} }

\* the locals of a call that begins
NewCall(m, via_sync) ==
    [IdleManager EXCEPT !.calls = m.calls + 1, !.sync_logs = m.sync_logs,
                        !.via_sync = via_sync]

\* no call is running and one more can be made
Ready == manager.pc \in {"idle", "returned", "raised"} /\ manager.calls < MaxCalls

\* sync_contacts, lines 57-59: get_user, then ValueError unless the user
\* has a google_token
SyncContacts ==
    /\ Ready
    /\ \/ manager' = [NewCall(manager, TRUE) EXCEPT !.pc = "raised",
                                                     !.error = "get_user"]
       \/ \E user \in Users :
            manager' = [NewCall(manager, TRUE) EXCEPT
                            !.user = user,
                            !.error = IF Authorized(user) THEN @ ELSE "ValueError",
                            !.pc = IF Authorized(user) THEN "create_sync_log"
                                   ELSE "raised"]
    /\ UNCHANGED <<adapter, extract, fetch, bot>>

\* line 62: _create_sync_log(user.id), before the try
ManagerCreateSyncLog ==
    /\ manager.pc = "create_sync_log"
    /\ \/ manager' = [manager EXCEPT !.pc = "raised", !.error = "add_sync_log"]
       \/ manager' = [manager EXCEPT
                        !.sync_logs = Append(@, ManagerLogRow(manager.user.id)),
                        !.sync_log = Len(manager.sync_logs) + 1,
                        !.pc = "get_contacts"]
    /\ UNCHANGED <<adapter, extract, fetch, bot>>

\* line 66: get_contacts(user.google_token, user.google_refresh_token)
ManagerGetContacts ==
    /\ manager.pc = "get_contacts"
    /\ \/ manager' = [manager EXCEPT !.pc = "handler", !.error = "get_contacts"]
       \/ manager' = [manager EXCEPT !.pc = "process_contacts"]
    /\ UNCHANGED <<adapter, extract, fetch, bot>>

\* _process_contacts(user_id, google_contacts) is called with connections
\* of the People API
CallProcessContacts ==
    /\ Ready
    /\ \E uid \in SyncUsers :
            manager' = [NewCall(manager, FALSE) EXCEPT
                            !.user = UserRow(uid, "tok", FALSE, "ref"),
                            !.pc = "process_contacts"]
    /\ UNCHANGED <<adapter, extract, fetch, bot>>

\* lines 222-237: the counters, get_contacts_by_user_id and the dictionary
\* of the existing contacts; an exception here is outside the try of the loop
ManagerProcessContacts ==
    /\ manager.pc = "process_contacts"
    /\ \/ manager' = [manager EXCEPT
                        !.pc = IF manager.via_sync THEN "handler" ELSE "raised",
                        !.error = "get_contacts_by_user_id"]
       \/ \E n \in 0..MaxBatch :
            manager' = [manager EXCEPT
                            !.existing = ExistingByGoogleId(manager.user.id),
                            !.result = NewStats(n),
                            !.idx = 1,
                            !.pc = "loop"]
    /\ UNCHANGED <<adapter, extract, fetch, bot>>

\* the contact the dictionary holds under google_id
ExistingContact(m, google_id) ==
    CHOOSE e \in m.existing : e.google_id = google_id

\* lines 240-267, one iteration of the loop: a connection without id is
\* skipped; else update_contact(existing_contact.id, contact_info) for an id
\* of the dictionary, add_contact(contact_info) for any other; a call that
\* raises counts the record as failed
ManagerRecord ==
    /\ manager.pc = "loop"
    /\ manager.idx <= manager.result.total
    /\ \E raw \in (IF manager.via_sync THEN {ViewOf(d) : d \in InputRecords}
                                        ELSE ManagerRecords) :
        LET google_id == GoogleIdOf(raw)
            contact_info == ExtractContactInfo(raw)
            counted(k) == [manager EXCEPT !.result = Bump(@, k), !.idx = @ + 1]
        IN
        IF ~Truthy(google_id)
        THEN manager' = counted("skipped") /\ UNCHANGED contacts
        ELSE \/ manager' = counted("failed") /\ UNCHANGED contacts
             \/ IF \E e \in manager.existing : e.google_id = google_id
                THEN /\ contacts' = ApplyChanges(contacts,
                                        ExistingContact(manager, google_id).id,
                                        contact_info)
                     /\ manager' = counted("updated")
                ELSE /\ contacts' = InsertContact(contacts,
                            [user_id |-> manager.user.id, google_id |-> google_id,
                             name |-> contact_info.name, email |-> contact_info.email,
                             phone |-> contact_info.phone,
                             company |-> contact_info.company,
                             position |-> contact_info.position,
                             notes |-> contact_info.notes])
                     /\ manager' = counted("added")
    /\ UNCHANGED <<social_links, frame, trace, replay, sync, sync_logs, extract, fetch, bot>>

\* line 269: return result; sync_contacts goes on to close the log
ManagerReturn ==
    /\ manager.pc = "loop"
    /\ manager.idx > manager.result.total
    /\ manager' = [manager EXCEPT !.pc = IF manager.via_sync
                                         THEN "update_sync_log" ELSE "returned"]
    /\ UNCHANGED <<adapter, extract, fetch, bot>>

\* line 72: _update_sync_log(sync_log.id, True, result), inside the try;
\* its update_data goes to update_sync_log as the second positional argument
ManagerCloseOnSuccess ==
    /\ manager.pc = "update_sync_log"
    /\ \/ manager' = [manager EXCEPT !.updates = @ + 1, !.pc = "handler",
                                      !.error = "update_sync_log"]
       \/ manager' = [manager EXCEPT
                        !.updates = @ + 1,
                        !.sync_logs = CloseRun(@, manager.sync_log, TRUE, None),
                        !.pc = "returned"]
    /\ UNCHANGED <<adapter, extract, fetch, bot>>

\* lines 76-79: _update_sync_log(sync_log.id, False, error_message=str(e)),
\* then raise; when the update raises, its exception leaves sync_contacts
ManagerCloseOnFailure ==
    /\ manager.pc = "handler"
    /\ \/ manager' = [manager EXCEPT !.updates = @ + 1, !.pc = "raised",
                                      !.error = "update_sync_log"]
       \/ manager' = [manager EXCEPT
                        !.updates = @ + 1,
                        !.sync_logs = CloseRun(@, manager.sync_log, FALSE,
                                               manager.error),
                        !.pc = "raised"]
    /\ UNCHANGED <<adapter, extract, fetch, bot>>

NextManager ==
    \/ SyncContacts
    \/ ManagerCreateSyncLog
    \/ ManagerGetContacts
    \/ CallProcessContacts
    \/ ManagerProcessContacts
    \/ ManagerRecord
    \/ ManagerReturn
    \/ ManagerCloseOnSuccess
    \/ ManagerCloseOnFailure

SpecManager == Init /\ [][NextManager]_vars

\* ---------------------------------------------------------- observations
\* number of records a run has classified
Handled(r) == frame[r].idx - 1

StatsSum(st) == st.added + st.updated + st.skipped + st.failed

\* the run stands between two records (or after the last) and has handled one
JustHandled(r) ==
    /\ frame[r].pc \in {"loop", "done"}
    /\ Handled(r) >= 1
    /\ Len(trace[r].outcomes) = Handled(r)

\* the record handled last, and its outcome
LastRecord(r) == frame[r].contact_data
LastOutcome(r) == trace[r].outcomes[Handled(r)]

\* the calls of one kind issued for the record handled last
CallsOf(t, op) == {i \in 1..Len(t.calls) : t.calls[i].op = op}

MutationOps == {"add_contact", "update_contact", "add_social_link"}

MutationCalls(t) == {i \in 1..Len(t.calls) : t.calls[i].op \in MutationOps}

\* this step classifies the record at idx
Classifies(r) == frame'[r].idx = frame[r].idx + 1

\* this step is a store call of run r that raises
RaisesNow(r) == Classifies(r) /\ trace'[r].raised # "none"

\* C1: at every moment of a run the four counters sum to the number of
\* records handled so far, which never exceeds total, the length of the
\* input; the returned statistics satisfy added + updated + skipped + failed
\* = total
C1_CountersSumToTotal ==
    \A r \in Runs :
        /\ StatsSum(frame[r].stats) = Handled(r)
        /\ Handled(r) <= frame[r].stats.total
        /\ frame[r].pc = "done" => StatsSum(frame[r].stats) = frame[r].stats.total

\* a run returned after one record failed and another one was added
C1_Witness ==
    \E r \in Runs :
        /\ frame[r].pc = "done"
        /\ frame[r].stats.total = MaxBatch
        /\ frame[r].stats.failed >= 1
        /\ frame[r].stats.added >= 1

\* C2: a store call that raises while record i is processed adds one to failed
\* and to nothing else, the loop goes on with record i+1 of the same input,
\* the exception never leaves _process_contacts, and the statistics are
\* returned only when every record has been handled
C2_PerRecordIsolation ==
    [][\A r \in Runs :
        /\ RaisesNow(r) =>
              /\ frame'[r].stats = Bump(frame[r].stats, "failed")
              /\ frame'[r].pc = "loop"
        /\ frame'[r].pc # "raised"
        /\ frame'[r].pc = "done" =>
              /\ Len(trace'[r].outcomes) = frame'[r].stats.total
              /\ frame'[r].stats.failed =
                    Cardinality({i \in 1..Len(trace'[r].outcomes) :
                                    trace'[r].outcomes[i] = "failed"})
      ]_vars

\* the create call failed on the first record and the second was still added
C2_Witness ==
    \E r \in Runs :
        /\ frame[r].pc = "done"
        /\ trace[r].outcomes = <<"failed", "added">>
        /\ frame[r].stats.added = 1 /\ frame[r].stats.failed = 1

\* C3: a record with an empty google_id whose processing raised nothing is
\* counted as skipped and no store mutation call was issued for it
C3_EmptyIdSkipped ==
    \A r \in Runs :
        (JustHandled(r) /\ LastRecord(r).google_id = "" /\ trace[r].raised = "none")
            => /\ LastOutcome(r) = "skipped"
               /\ MutationCalls(trace[r]) = {}

\* the pc values of _update_contact
UpdatePath == {"update_contact", "get_social_links", "update_links"}

\* the pc values of _create_contact
CreatePath == {"add_contact", "create_links"}

\* this step classifies a record of the update (create) path, no call raised
ClassifiesMatched(r) ==
    frame[r].pc \in UpdatePath /\ Classifies(r) /\ ~RaisesNow(r)

ClassifiesCreated(r) ==
    frame[r].pc \in CreatePath /\ Classifies(r) /\ ~RaisesNow(r)

\* the outcome a classifying step records
NewOutcome(r) == trace'[r].outcomes[Len(trace'[r].outcomes)]

\* the scalar attributes whose normalized value is non-empty and differs
ChangedSet(stored, d) == {a \in Attrs : Truthy(d[a]) /\ d[a] # stored[a]}

\* the (platform, url) pairs of a contact's SocialLink rows, in table order
LinksIn(rows, cid) ==
    LET own == SelectSeq(rows, LAMBDA x : x.contact_id = cid)
    IN [i \in 1..Len(own) |-> Link(own[i].platform, own[i].url)]

\* C4: no step replaces a non-empty stored attribute by an empty one; while a
\* matched record is processed an attribute whose normalized value is empty
\* is not in the changes dictionary and its stored value stays as it was
C4_FillNeverErases ==
    [][\A r \in Runs :
        /\ Len(contacts') >= Len(contacts)
        /\ \A i \in 1..Len(contacts), a \in Attrs :
              Truthy(contacts[i][a]) => Truthy(contacts'[i][a])
        /\ frame'[r].pc \in UpdatePath =>
              \A a \in Attrs :
                ~Truthy(Current(frame'[r])[a]) => a \notin DOMAIN frame'[r].changes
        /\ frame[r].pc \in UpdatePath =>
              \A a \in Attrs :
                ~Truthy(Current(frame[r])[a]) =>
                    contacts'[frame[r].existing_contact.id][a]
                        = contacts[frame[r].existing_contact.id][a]
      ]_vars

\* the update call returned: the e-mail was replaced, the empty notes of the
\* record left the stored notes alone
C4_Witness ==
    \E r \in Runs :
        /\ frame[r].pc = "get_social_links"
        /\ CallsOf(trace[r], "update_contact") # {}
        /\ Current(frame[r]).notes = ""
        /\ contacts[frame[r].existing_contact.id].notes = "existing"
        /\ frame[r].existing_contact.email = "old@x.com"
        /\ contacts[frame[r].existing_contact.id].email = "ann@x.com"

\* C5: an update call writes exactly the attributes whose normalized value is
\* non-empty and differs from the stored one, to that value, and nothing else;
\* a matched record gets one update call when that set is non-empty and none
\* when it is empty
C5_UpdateWritesExactlyChanged ==
    [][\A r \in Runs :
        LET f == frame[r]
            id == f.existing_contact.id
        IN /\ (f.pc = "update_contact" /\ ~RaisesNow(r)) =>
                LET W == ChangedSet(contacts[id], Current(f))
                IN /\ W # {}
                   /\ \A a \in Attrs :
                        contacts'[id][a] = IF a \in W THEN Current(f)[a]
                                           ELSE contacts[id][a]
                   /\ Len(contacts') = Len(contacts)
                   /\ \A i \in 1..Len(contacts) : i # id => contacts'[i] = contacts[i]
           /\ f.pc # "update_contact" =>
                \A i \in 1..Len(contacts) : contacts'[i] = contacts[i]
           /\ ClassifiesMatched(r) =>
                LET W0 == ChangedSet(f.existing_contact, Current(f))
                IN /\ Cardinality(CallsOf(trace'[r], "update_contact"))
                        = IF W0 = {} THEN 0 ELSE 1
                   /\ \A a \in W0 : contacts'[id][a] = Current(f)[a]
      ]_vars

\* a matched record filled the empty stored phone in one update call
C5_Witness ==
    \E r \in Runs :
        /\ JustHandled(r)
        /\ LastOutcome(r) = "updated"
        /\ LastRecord(r).phone = "+1-555-0100"
        /\ frame[r].existing_contact.phone = ""
        /\ contacts[frame[r].existing_contact.id].phone = "+1-555-0100"
        /\ Cardinality(CallsOf(trace[r], "update_contact")) = 1

\* C6: a matched record processed without an exception is counted as skipped
\* exactly when no update call and no social-link append was issued for it (the
\* stored row is then the one that was matched), and as updated otherwise
C6_MatchedClassification ==
    [][\A r \in Runs :
        ClassifiesMatched(r) =>
            LET t == trace'[r]
                touched == \/ CallsOf(t, "update_contact") # {}
                           \/ CallsOf(t, "add_social_link") # {}
            IN /\ NewOutcome(r) = IF touched THEN "updated" ELSE "skipped"
               /\ frame'[r].stats = Bump(frame[r].stats, NewOutcome(r))
               /\ ~touched => /\ contacts'[frame[r].existing_contact.id]
                                    = frame[r].existing_contact
                              /\ social_links' = social_links
      ]_vars

\* a matched record with no scalar change was counted as updated because a
\* link was appended
C6_Witness ==
    \E r \in Runs :
        /\ JustHandled(r)
        /\ LastOutcome(r) = "updated"
        /\ frame[r].existing_contact # NoContact
        /\ CallsOf(trace[r], "update_contact") = {}
        /\ CallsOf(trace[r], "add_social_link") # {}

\* C7: a record with a non-empty google_id that matched nothing and met no
\* failure has created one contact, owned by the run's user, carrying the
\* record's google_id and six scalar values, with the record's social links
\* attached in order, and has added one to added and to no other counter
C7_CreatePath ==
    [][\A r \in Runs :
        (ClassifiesCreated(r) /\ Current(frame[r]).google_id # "") =>
            LET f == frame[r]
                d == Current(f)
                n == trace'[r].created
            IN /\ f.existing_contact = NoContact
               /\ Cardinality(CallsOf(trace'[r], "add_contact")) = 1
               /\ n = Len(contacts')
               /\ contacts'[n].id = n
               /\ contacts'[n].user_id = f.user_id
               /\ contacts'[n].google_id = d.google_id
               /\ \A a \in Attrs : contacts'[n][a] = d[a]
               /\ LinksIn(social_links', n) = d.social_links
               /\ frame'[r].stats = Bump(f.stats, "added")
      ]_vars

\* the record g1 / Ann / ann@x.com with one linkedin link was added to a
\* store that had no contact
C7_Witness ==
    \E r \in Runs :
        /\ JustHandled(r)
        /\ LastOutcome(r) = "added"
        /\ Len(contacts) = 1
        /\ contacts[1].google_id = "g1" /\ contacts[1].email = "ann@x.com"
        /\ LinksIn(social_links, 1) = <<Link("linkedin", "https://li/ann")>>
        /\ frame[r].stats = [total |-> 1, added |-> 1, updated |-> 0,
                             failed |-> 0, skipped |-> 0]

\* C8: the contact created for an added record has at most one SocialLink
\* per URL
C8_CreateSkipsDuplicateUrls ==
    \A r \in Runs :
        (JustHandled(r) /\ LastOutcome(r) = "added") =>
            LET own == LinksIn(social_links, trace[r].created)
            IN \A i, j \in 1..Len(own) : own[i].url = own[j].url => i = j

\* C9: no contact has two SocialLink rows with the same url
C9_SocialLinkUrlsUnique ==
    \A i, j \in 1..Len(social_links) :
        (/\ social_links[i].contact_id = social_links[j].contact_id
         /\ social_links[i].url = social_links[j].url) => i = j

\* C10: on the update path a link is appended only to the matched contact and
\* only for a URL that contact did not have when it was matched; a record all
\* of whose URLs the contact had, with no scalar change, is counted as skipped
C10_NoDuplicateOnUpdate ==
    [][\A r \in Runs :
        LET f == frame[r]
            links == Current(f).social_links
        IN /\ (f.pc \in UpdatePath /\ social_links' # social_links) =>
                /\ Len(social_links') = Len(social_links) + 1
                /\ SubSeq(social_links', 1, Len(social_links)) = social_links
                /\ social_links'[Len(social_links')].contact_id = f.existing_contact.id
                /\ social_links'[Len(social_links')].url \notin trace[r].had_urls
           /\ (/\ ClassifiesMatched(r)
               /\ CallsOf(trace'[r], "update_contact") = {}
               /\ \A k \in 1..Len(links) : links[k].url \in trace[r].had_urls) =>
                /\ NewOutcome(r) = "skipped"
                /\ CallsOf(trace'[r], "add_social_link") = {}
      ]_vars

\* a record repeating the stored URL under another platform label, with no
\* scalar change, was skipped without any store mutation call
C10_Witness ==
    \E r \in Runs :
        /\ JustHandled(r)
        /\ LastOutcome(r) = "skipped"
        /\ frame[r].existing_contact # NoContact
        /\ LastRecord(r).social_links = <<Link("website", "https://li/ann")>>
        /\ LinksIn(social_links, frame[r].existing_contact.id)
                = <<Link("linkedin", "https://li/ann")>>
        /\ MutationCalls(trace[r]) = {}

NoFailure(outcomes) ==
    \A i \in 1..Len(outcomes) : outcomes[i] # "failed"

\* the record d of the user uid is identical to what the tables hold: a row
\* of the user carries its google_id, every such row has its six values, and
\* every URL of the record is a link of that row
StoredAs(d, uid, rows, links) ==
    /\ OwnRows(rows, uid, d.google_id) # {}
    /\ \A i \in OwnRows(rows, uid, d.google_id) :
        /\ \A a \in Attrs : rows[i][a] = d[a]
        /\ \A k \in 1..Len(d.social_links) :
                \E j \in 1..Len(links) :
                    links[j].contact_id = i /\ links[j].url = d.social_links[k].url

\* the remote data is identical to the data stored after the first run
RemoteIdentical(r) ==
    \A i \in 1..Len(replay.input) :
        StoredAs(replay.input[i], frame[r].user_id, replay.stored[1], replay.stored[2])

\* C12: when _process_contacts runs twice in sequence for the same user with
\* the same list and no store call raises, the second run counts as added no
\* record the first run counted as added; and when every record is identical
\* to what the tables hold after the first run, the second run counts every
\* record as skipped, none as updated, and leaves both tables as they were
C12_Idempotence ==
    \A r \in Runs :
        (replay.pass = 2 /\ NoFailure(replay.first) /\ NoFailure(trace[r].outcomes)) =>
            /\ \A i \in 1..Len(trace[r].outcomes) :
                    replay.first[i] = "added" => trace[r].outcomes[i] # "added"
            /\ RemoteIdentical(r) =>
                /\ <<contacts, social_links>> = replay.stored
                /\ frame[r].stats.updated = 0
                /\ frame[r].stats.added = 0
                /\ frame[r].pc = "done" => frame[r].stats.skipped = frame[r].stats.total

\* the second run returned after skipping every record of a full list whose
\* first record the first run had added
C12_Witness ==
    \E r \in Runs :
        /\ replay.pass = 2
        /\ frame[r].pc = "done"
        /\ NoFailure(replay.first) /\ NoFailure(trace[r].outcomes)
        /\ Len(replay.input) = MaxBatch
        /\ replay.first[1] = "added"
        /\ RemoteIdentical(r)
        /\ frame[r].stats.skipped = MaxBatch
\* sync_contacts_from_google has ended without being cancelled, for a user
\* who is authorized in Google
Ended ==
    /\ sync.pc \in {"returned_success", "returned_failure", "raised"}
    /\ Authorized(sync.user)

\* the row create_sync_log returned to this sync
RunRecord == sync_logs[sync.sync_log]

\* C13: every sync of an authorized user calls create_sync_log exactly once,
\* before any record is processed, and update_sync_log exactly once
\* afterwards, when processing succeeds and when the fetch, the token refresh
\* or the update itself fails; the log is never updated a second time
C13_RunLogLifecycle ==
    /\ sync.pc = "processing" => sync.opens = 1 /\ sync.closes = 0
    /\ sync.closes <= 1
    /\ (Ended /\ sync.error # "create_sync_log") =>
            sync.opens = 1 /\ sync.closes = 1

\* C14: when a failure outside the per-record loop has ended a sync whose
\* log was created, the log row has an end_time, success False and the
\* message of the exception as error_message, and the caller gets a failure
C14_EngineFailureLogged ==
    (Ended /\ sync.sync_log # 0 /\ sync.error # None) =>
        /\ sync.pc # "returned_success"
        /\ RunRecord.end_time # None
        /\ RunRecord.success = FALSE
        /\ RunRecord.error_message = sync.error

\* C15: when a sync whose log was created is cancelled at one of its awaits,
\* the log row is closed as failed with a cancellation error; no log row of
\* a sync that has ended or was cancelled is left without an end_time
C15_CancelledRunClosed ==
    /\ (sync.pc = "cancelled" /\ sync.sync_log # 0) =>
            /\ RunRecord.success = FALSE
            /\ RunRecord.error_message = "CancelledError"
    /\ ((Ended \/ sync.pc = "cancelled") /\ sync.sync_log # 0) =>
            RunRecord.end_time # None
\* C16: a contact whose google_id is NULL is never the target of an update or
\* of a social-link append: no step changes its row or the links it has,
\* whatever the records are, records with an empty google_id included
C16_NullIdNeverMatched ==
    [][\A i \in 1..Len(contacts) :
        contacts[i].google_id = None =>
            /\ contacts'[i] = contacts[i]
            /\ LinksIn(social_links', i) = LinksIn(social_links, i)
      ]_vars

\* a record with an empty google_id was handled for a user who owns a contact
\* with a NULL google_id, and a new contact was created for it
C16_Witness ==
    \E r \in Runs :
        /\ JustHandled(r)
        /\ LastRecord(r).google_id = ""
        /\ LastOutcome(r) = "added"
        /\ \E i \in 1..Len(contacts) :
                contacts[i].google_id = None /\ contacts[i].user_id = frame[r].user_id

\* C17: no step of a run deletes: every row of the contacts table is still
\* there after the step, with its id, owner and google_id, and every row of
\* the social_links table is still there, unchanged
C17_NeverDeletes ==
    [][/\ Len(contacts') >= Len(contacts)
       /\ \A i \in 1..Len(contacts) :
            /\ contacts'[i].id = contacts[i].id
            /\ contacts'[i].user_id = contacts[i].user_id
            /\ contacts'[i].google_id = contacts[i].google_id
       /\ Len(social_links') >= Len(social_links)
       /\ SubSeq(social_links', 1, Len(social_links)) = social_links
      ]_vars

\* a contact that had a social link was updated by update_contact, and the
\* table still holds the link
C17_Witness ==
    \E r \in Runs :
        /\ JustHandled(r)
        /\ LastOutcome(r) = "updated"
        /\ CallsOf(trace[r], "update_contact") # {}
        /\ trace[r].had_urls # {}
        /\ trace[r].had_urls \subseteq UrlsOf(frame[r].existing_contact.id)
\* C18: nothing excludes two overlapping runs of one user from each other:
\* a run that found no contact for its record creates one when it is resumed,
\* with the record's google_id, whatever the other run has inserted since
\* the lookup
C18_CreateAfterStaleLookup ==
    [][\A r \in Tasks :
        (/\ frame[r].pc = "add_contact"
         /\ frame'[r] # frame[r]
         /\ trace'[r].raised = "none") =>
            /\ Len(contacts') = Len(contacts) + 1
            /\ contacts'[Len(contacts')].user_id = frame[r].user_id
            /\ contacts'[Len(contacts')].google_id = Current(frame[r]).google_id
      ]_vars

\* the two runs each created a contact of the same user with the same
\* non-empty google_id
C18_Witness ==
    /\ trace[1].created # 0 /\ trace[2].created # 0
    /\ trace[1].created # trace[2].created
    /\ contacts[trace[1].created].user_id = contacts[trace[2].created].user_id
    /\ contacts[trace[1].created].google_id = contacts[trace[2].created].google_id
    /\ Truthy(contacts[trace[1].created].google_id)
\* the position of the entry the selection rule names: the first entry
\* whose primary flag is set if there is one, else the first entry
Selected(list) ==
    IF \E i \in 1..Len(list) : list[i].primary = "true"
    THEN CHOOSE i \in 1..Len(list) :
            /\ list[i].primary = "true"
            /\ \A j \in 1..(i - 1) : list[j].primary # "true"
    ELSE 1

\* the text the selection rule yields for a field: "" when the list is
\* absent or empty or the selected entry has no text under the key
Expected(field, key) ==
    IF ~field.present THEN ""
    ELSE IF Len(field.list) = 0 THEN ""
    ELSE IF field.list[Selected(field.list)][key] = Absent THEN ""
    ELSE field.list[Selected(field.list)][key]

\* C19: for names, emailAddresses, phoneNumbers, organizations and
\* biographies the returned value is taken from the first entry in source
\* order whose primary flag is set, from the first entry when no entry has
\* the flag set, and is the empty string when the list is empty or absent;
\* company and position come from the same organization entry
C19_SelectionRule ==
    extract.pc = "returned" =>
        /\ extract.out.name = Expected(extract.raw.names, "displayName")
        /\ extract.out.email = Expected(extract.raw.emailAddresses, "value")
        /\ extract.out.phone = Expected(extract.raw.phoneNumbers, "value")
        /\ extract.out.company = Expected(extract.raw.organizations, "name")
        /\ extract.out.position = Expected(extract.raw.organizations, "title")
        /\ extract.out.notes = Expected(extract.raw.biographies, "value")

\* a connection whose second organization is the primary one was extracted:
\* company and position are those of the second entry, not of the first
C19_Witness ==
    /\ extract.pc = "returned"
    /\ extract.raw.organizations.present
    /\ Len(extract.raw.organizations.list) = 2
    /\ extract.raw.organizations.list[1].primary # "true"
    /\ extract.raw.organizations.list[2].primary = "true"
    /\ extract.raw.organizations.list[1].name = "a"
    /\ extract.raw.organizations.list[2].name = "b"
    /\ extract.raw.organizations.list[2].title = "a"
    /\ extract.out.company = "b"
    /\ extract.out.position = "a"

\* the URL entries of the connection that was extracted
RawUrls == IF extract.raw.urls.present THEN extract.raw.urls.list ELSE <<>>

\* C20: social_links has exactly one element per entry of urls, in source
\* order, nothing left out for a repeated URL or for the primary flag; the
\* platform of an element is the type of its entry, "website" when the
\* entry has no type
C20_SocialLinksPerUrl ==
    extract.pc = "returned" =>
        /\ Len(extract.out.social_links) = Len(RawUrls)
        /\ \A i \in 1..Len(RawUrls) :
            /\ extract.out.social_links[i].url
                    = (IF RawUrls[i].value = Absent THEN "" ELSE RawUrls[i].value)
            /\ extract.out.social_links[i].platform
                    = (IF RawUrls[i].type = Absent THEN "website" ELSE RawUrls[i].type)

\* a connection with the same URL twice, the second time without a type and
\* not primary, was extracted into two links, the second one a "website"
C20_Witness ==
    /\ extract.pc = "returned"
    /\ Len(RawUrls) = 2
    /\ RawUrls[1].value = "https://li/ann" /\ RawUrls[2].value = "https://li/ann"
    /\ RawUrls[1].type = "linkedin" /\ RawUrls[2].type = Absent
    /\ RawUrls[2].primary = "false"
    /\ extract.out.social_links =
            <<Link("linkedin", "https://li/ann"), Link("website", "https://li/ann")>>
\* C23: when get_user_by_telegram_id returned no user, or a user without a
\* google_token, sync_contacts_from_google ends by raising ValueError to its
\* caller: create_sync_log and get_contacts were not called, no sync log
\* exists, _process_contacts was not entered and no store call was made, so
\* the two tables are the ones the sync found
NotAuthorized ==
    /\ sync.pc # "idle"
    /\ sync.error # "get_user_by_telegram_id"
    /\ sync.user = NoUser \/ sync.user.google_token = None

C23_UnauthorizedRaises ==
    NotAuthorized =>
        /\ sync.pc = "raised"
        /\ sync.error = "ValueError"
        /\ sync.opens = 0 /\ sync.closes = 0 /\ sync.fetches = 0
        /\ sync_logs = <<>>
        /\ \A r \in Runs : frame[r] = IdleFrame /\ trace[r] = IdleTrace
        /\ \E s \in InitialStores :
                contacts = s.contacts /\ social_links = s.social_links

\* a user row that exists and has no google_token was refused
C23_Witness ==
    /\ sync.pc = "raised"
    /\ sync.user.id = 1
    /\ sync.user.google_token = None
    /\ Len(contacts) > 0

\* C27: in a store whose contacts had no non-empty google_id twice under one
\* user when the runs started, runs that follow one another, whatever their
\* records (a google_id twice in one list included) and whichever store
\* calls raise, leave no two contacts of one user with the same non-empty
\* google_id
C27_ExternalIdUnique ==
    \A i, j \in 1..Len(contacts) :
        (/\ i # j
         /\ contacts[i].user_id = contacts[j].user_id
         /\ Truthy(contacts[i].google_id))
            => contacts[i].google_id # contacts[j].google_id

\* the first record of a run was counted as failed after its contact had
\* been created, and the second record, with the same google_id, was
\* matched with that contact
C27_Witness ==
    \E r \in Runs :
        /\ JustHandled(r)
        /\ Len(trace[r].outcomes) = 2
        /\ trace[r].outcomes[1] = "failed"
        /\ trace[r].outcomes[2] \in {"updated", "skipped"}
        /\ frame[r].existing_contact.id > trace[r].snap_len
        /\ Truthy(LastRecord(r).google_id)
        /\ Cardinality(Matching(frame[r].user_id, LastRecord(r).google_id)) = 1

\* C28: a record counted as failed leaves the two tables as they were when
\* the loop reached it: none of the add_contact, update_contact and
\* add_social_link calls issued for it returned (a call that returned has
\* written its row), whichever call raised
C28_FailedRecordLeavesStore ==
    \A r \in Runs :
        (JustHandled(r) /\ LastOutcome(r) = "failed") =>
            \A i \in MutationCalls(trace[r]) : ~trace[r].calls[i].ok

\* C29: a run for one user changes no contact of another user and none of
\* that contact's social links, even when a record carries the google_id of
\* the other user's contact, and every contact the run creates has the
\* run's user as user_id
C29_AccountIsolation ==
    [][\A r \in Runs :
        /\ \A i \in 1..Len(contacts) :
                contacts[i].user_id # frame'[r].user_id =>
                    /\ contacts'[i] = contacts[i]
                    /\ LinksIn(social_links', i) = LinksIn(social_links, i)
        /\ \A i \in (Len(contacts) + 1)..Len(contacts') :
                contacts'[i].user_id = frame'[r].user_id]_vars

\* a record with the google_id of another user's contact was handled: a
\* contact of the run's user was created for it and the other user's contact
\* is in the table with the same google_id
C29_Witness ==
    \E r \in Runs :
        /\ JustHandled(r)
        /\ LastOutcome(r) = "added"
        /\ trace[r].created # 0
        /\ contacts[trace[r].created].user_id = frame[r].user_id
        /\ \E i \in 1..Len(contacts) :
                /\ contacts[i].user_id # frame[r].user_id
                /\ contacts[i].google_id = LastRecord(r).google_id

\* C21: an error of _process_contact_data on one connection does not end the
\* fetch: get_contacts raises for no such error, the other connections are
\* returned and the record is one the batch counts as failed
C21_ExtractionErrorPerRecord ==
    fetch.pc = "raised" => fetch.error # "_process_contact_data"

\* the requests a fetch made for the page n
RequestsFor(n) == {i \in 1..Len(fetch.sent) : fetch.sent[i].page = n}

\* C26: the list get_contacts fills, and the one it returns, is the extracted
\* record of every connection of every page it took, in page order and each
\* once; it returns at the first response without nextPageToken and asks for
\* the next page with the token otherwise; a page is asked for once, and once
\* more after a 401 when a refresh token is there and the one refresh made
\* for it returned; from a refresh on every request carries the new token;
\* and a retry answered with an error ends the fetch with an exception and no
\* list
C26_RemoteFetch ==
    /\ fetch.contacts = [i \in 1..Len(fetch.served) |->
                            ProcessContactData(fetch.served[i])]
    /\ fetch.pc = "returned" =>
            fetch.out = fetch.contacts /\ fetch.next_page_token = 0
    /\ fetch.pc = "raised" => fetch.out = <<>>
    /\ (fetch.pc \in {"get", "refresh", "retry"} /\ fetch.pages > 0) =>
            fetch.next_page_token # 0
    /\ \A i \in 1..Len(fetch.sent) :
            LET q == fetch.sent[i]
            IN /\ q.page_token = q.page - 1
               /\ Cardinality({j \in RequestsFor(q.page) : fetch.sent[j].retry = q.retry}) = 1
               /\ q.retry =>
                    /\ i > 1
                    /\ fetch.sent[i - 1].page = q.page
                    /\ ~fetch.sent[i - 1].retry
                    /\ fetch.sent[i - 1].status = 401
                    /\ Truthy(fetch.refresh_token)
                    /\ q.authorization = "new"
               /\ (q.retry /\ q.status # 200) =>
                    i = Len(fetch.sent) /\ fetch.pc = "raised"
               /\ (~q.retry /\ q.status = 401 /\ Truthy(fetch.refresh_token)) =>
                    \/ i < Len(fetch.sent) /\ fetch.sent[i + 1].retry
                    \/ i = Len(fetch.sent) /\ fetch.pc \in {"refresh", "retry", "raised"}
               /\ \A j \in 1..(i - 1) :
                    fetch.sent[j].authorization = "new" => q.authorization = "new"
    /\ fetch.refreshes = Cardinality({i \in 1..Len(fetch.sent) : fetch.sent[i].retry})
                            + (IF fetch.pc = "retry" THEN 1 ELSE 0)

\* a fetch returned the connections of two pages after the first page was
\* answered with 401, the token refreshed and the request repeated
C26_Witness ==
    /\ fetch.pc = "returned"
    /\ fetch.pages = 2
    /\ Len(fetch.out) >= 2
    /\ fetch.refreshes = 1
    /\ fetch.sent[1].status = 401
    /\ fetch.sent[2].retry
    /\ fetch.sent[3].authorization = "new"

\* C22: the /auth_code step that accepts the code the user sent leaves the
\* user's row with an access token and an expiry, so that is_google_authorized
\* is true, and a /sync that follows it calls sync_contacts_from_google
\* instead of asking the user to authorize
C22_AuthorizationReached ==
    [][/\ (bot'.last = "auth_code" /\ bot'.reply = "code_accepted") =>
                IsGoogleAuthorized(bot'.user)
       /\ (bot.last = "auth_code" /\ bot.reply = "code_accepted"
                /\ bot'.last = "sync") =>
                bot'.called /\ bot'.reply # "authorize"]_vars

\* C30: a /sync of a user whose access token has expired and who has a
\* refresh token calls sync_contacts_from_google, which refreshes the token,
\* and does not ask the user to authorize
C30_ExpiredTokenSyncs ==
    (/\ bot.last = "sync"
     /\ Truthy(bot.user.google_token)
     /\ bot.user.token_expiry = "past"
     /\ Truthy(bot.user.google_refresh_token))
        => bot.called /\ bot.reply # "authorize"

\* the row _create_sync_log returned to this call of sync_contacts
ManagerLog == manager.sync_logs[manager.sync_log]

\* C24: sync_contacts has created its log, with status in_progress, when it
\* fetches and processes; when it has returned the status of the log is
\* completed; when the fetch or the processing raised and the exception was
\* re-raised, the status is failed and the error_message is the message of
\* the exception; and the log is updated at most once in a call
C24_ManagerLogLifecycle ==
    manager.via_sync =>
        /\ manager.pc \in {"get_contacts", "process_contacts", "loop"} =>
                manager.sync_log # 0 /\ ManagerLog.status = "in_progress"
        /\ manager.pc = "returned" => ManagerLog.status = "completed"
        /\ (/\ manager.pc = "raised"
            /\ manager.error \in {"get_contacts", "get_contacts_by_user_id"}) =>
                /\ ManagerLog.status = "failed"
                /\ ManagerLog.error_message = manager.error
        /\ manager.updates <= 1

\* C25: the step of SyncManager._process_contacts that updates the contact
\* matched by the id of a connection leaves every non-empty name, email,
\* phone, notes, company and position of that contact non-empty
C25_ManagerNeverErases ==
    [][manager'.result.updated = manager.result.updated + 1 =>
        \A i \in 1..Len(contacts) : \A a \in Attrs :
            Truthy(contacts[i][a]) => Truthy(contacts'[i][a])]_vars

====
